---- MODULE Spec2Model ----
(***************************************************************************)
(* Model of the sandboxed execution tools of mcp_server.                   *)
(*                                                                         *)
(* tools/python.py: SandboxedPython (staging, pre-exec hook, execute,      *)
(* finaliser) and the tool entry point tool_python, as concurrent asyncio  *)
(* tasks of one host process (Spec, OneCallSpec).                          *)
(*                                                                         *)
(* tools/sandbox.py and tools/shell.py: the two revisions of               *)
(* ShellConnection (connect, run_command, _read_until_prompt) and their    *)
(* tools tool_sandbox and tool_shell, as one tool call on one connection   *)
(* to a peer (ShellSpec).                                                  *)
(*                                                                         *)
(* format_output of tools/python.py, and sanitise_path and read_file of    *)
(* the two revisions of tools/workspace.py: functions, each applied once   *)
(* to arguments drawn from bounded sets (FunctionSpec).                    *)
(*                                                                         *)
(* One action is the code a task runs between two suspension points; the   *)
(* sandboxed child and the peer run on their own.                          *)
(***************************************************************************)
EXTENDS Integers, Sequences, FiniteSets, TLC

(* ------------------------------ bounds -------------------------------- *)
\* number of tool_python calls in flight
MaxCalls == 2
\* names the OS temp-directory primitive can hand out
MaxDirs == 2
\* largest explicit time_limit argument a caller passes
MaxTimeLimit == 1
\* stdout chunks a child writes at most
MaxChunks == 1

(* ------------------------- program constants -------------------------- *)
\* tool_python(code, time_limit: int = 5, lint=False)
DefaultTimeLimit == 5
\* ResourceLimits.CPU_TIME (seconds), PROCESS_COUNT
CPU_TIME == 600
PROCESS_COUNT == 50
\* ResourceLimits.MEMORY and FILE_SIZE, in MiB (2 GiB, 50 MiB)
MEMORY == 2048
FILE_SIZE == 50
\* returncode of a child ended by SIGKILL
KilledCode == -9

ALLOWED_ENV_VARS ==
    {"LANG", "OPENBLAS_NUM_THREADS", "PYTHON_VERSION", "PYTHONPATH",
     "SANDBOX_PYTHON", "SANDBOX_RUFF", "TZ", "USER_AGENT"}

\* LIMITS as a loop over the resources sorted by their number would set them
\* (RLIMIT_CPU 0, RLIMIT_FSIZE 1, RLIMIT_CORE 4, RLIMIT_NPROC 6, RLIMIT_AS 9)
LIMITS_by_number ==
    << <<"RLIMIT_CPU", CPU_TIME>>, <<"RLIMIT_FSIZE", FILE_SIZE>>,
       <<"RLIMIT_CORE", 0>>, <<"RLIMIT_NPROC", PROCESS_COUNT>>,
       <<"RLIMIT_AS", MEMORY>> >>

\* ResourceLimits.LIMITS, in the insertion order of the dict literal
LIMITS ==
    << <<"RLIMIT_AS", MEMORY>>, <<"RLIMIT_CPU", CPU_TIME>>,
       <<"RLIMIT_NPROC", PROCESS_COUNT>>, <<"RLIMIT_FSIZE", FILE_SIZE>>,
       <<"RLIMIT_CORE", 0>> >>

(* ----------------------------- value sets ----------------------------- *)
Calls == 1..MaxCalls
DirNames == 1..MaxDirs
NoDir == 0
None == -1

\* variables that can be set in the host's environment, and their values
EnvNames == {"SANDBOX_PYTHON", "SANDBOX_RUFF", "SECRET_TOKEN"}
EnvValue ==
    [k \in EnvNames |->
        CASE k = "SANDBOX_PYTHON" -> "/usr/bin/python3"
          [] k = "SANDBOX_RUFF" -> "/usr/bin/ruff"
          [] OTHER -> "hunter2"]
HostEnvironments == {[k \in S |-> EnvValue[k]] : S \in SUBSET EnvNames}

\* what the submitted code does: exits 0, exits non-zero, never terminates,
\* or holds a lone surrogate (a str that UTF-8 cannot encode)
CodeKinds == {"exit0", "exit1", "loop", "surrogate"}
TimeLimits == (0..MaxTimeLimit) \cup {DefaultTimeLimit}

\* identity (uid, gid, supplementary groups) of the host process
HostIdentity == "host"

\* Python exception classes that are subclasses of OSError
OSErrorClasses ==
    {"OSError", "FileNotFoundError", "FileExistsError", "PermissionError",
     "ProcessLookupError"}

\* the mapping with no key
EmptyMap == [k \in {} |-> "v"]

NoChild ==
    [state |-> "none", rc |-> 0, log |-> <<>>, rlimits |-> EmptyMap,
     env |-> EmptyMap, identity |-> "none", killed |-> FALSE,
     pipes |-> "none", out |-> 0, err |-> 0]
NoSandbox == [temp_dir |-> NoDir, time_limit |-> None, lint |-> FALSE, live |-> FALSE]
NoArgs == [code |-> "exit0", time_limit |-> 0, lint |-> FALSE]
NoResult ==
    [stdout |-> <<>>, stderr |-> <<>>, errmsg |-> <<>>, caught |-> "none", exc |-> "none"]
NoLoss == [out |-> 0, err |-> 0]

VARIABLES
    os_environ,   \* the host's os.environ
    dirs,         \* temp directories that exist on disk
    script,       \* script[d]: the call whose code is in d/run/usercode.py, or 0
    pc,           \* pc[c]: position of call c
    args,         \* args[c]: arguments of tool_python call c
    sandbox,      \* sandbox[c]: the SandboxedPython instance of call c
    child,        \* child[c]: the child process of call c
    timer,        \* timer[c]: the asyncio timeout of call c: off, armed, expired
    lost,         \* lost[c]: chunks a cancelled communicate() had consumed
    result        \* result[c]: what execute returned, or what tool_python raised

\* the remote-shell tools (tools/sandbox.py and tools/shell.py)
VARIABLES
    revision,     \* the module the call runs: "sandbox.py" or "shell.py"
    location,     \* SANDBOX / SANDBOX_SOCKET in the host's environment
    peer,         \* what is at the other end: any byte stream, or a shell
    sh_pc,        \* position of the tool call
    request,      \* arguments of the tool call: screen, cwd
    run,          \* the run_command in progress: its command, its read
    writer,       \* what was written to the stream, in order
    received,     \* the lines readline() returned on this connection
    eof,          \* the stream is at EOF
    buffer,       \* buffer of the _read_until_prompt in progress
    output,       \* `output` of the run_command in progress
    cmd_result,   \* what the tool's run_command of the command returned
    tool_result,  \* what the tool returned or raised
    connection    \* the stream: none (never opened), refused, open, closed,
                  \* finalised (closed by the interpreter, not by the code)

\* the functions checked on their own (format_output, sanitise_path, read_file)
VARIABLES
    call,         \* the function called and its arguments
    outcome       \* what the call returned or raised

py_vars == <<os_environ, dirs, script, pc, args, sandbox, child, timer, lost, result>>

sh_vars ==
    <<revision, location, peer, sh_pc, request, run, writer, received, eof,
      buffer, output, cmd_result, tool_result, connection>>

fn_vars == <<call, outcome>>

vars ==
    <<os_environ, dirs, script, pc, args, sandbox, child, timer, lost, result,
      revision, location, peer, sh_pc, request, run, writer, received, eof,
      buffer, output, cmd_result, tool_result, connection, call, outcome>>

(* ------------------------- staging (lines 63-73) ---------------------- *)
\* os.path.exists / shutil.rmtree of __del__: the directories left on disk
\* when instance sb is finalised.  An instance whose _temp_dir was never
\* assigned raises AttributeError in __del__, which Python ignores.
del_sandbox(ds, sb) ==
    IF sb.temp_dir # NoDir /\ sb.temp_dir \in ds THEN ds \ {sb.temp_dir} ELSE ds

\* tempfile.mkdtemp hands out a name that does not exist
mkdtemp_names(ds) == DirNames \ ds

\* the time limit passed on whether or not lint is set
sandbox_time_limit_kept(a) == a.time_limit

\* the time_limit tool_python passes to the instance (line 153)
sandbox_time_limit(a) == IF a.lint THEN None ELSE a.time_limit

(* -------------------- pre-exec hook (lines 75-85) --------------------- *)
\* {k: v for k, v in os_environ.items() if k in ALLOWED_ENV_VARS}
original_env(env) == [k \in (DOMAIN env) \cap ALLOWED_ENV_VARS |-> env[k]]

\* the hook without the clear(): the update only adds to what is inherited
environ_clear_skipped(env) == env

\* os_environ.clear()
environ_clear(env) == [k \in (DOMAIN env) \ (DOMAIN env) |-> env[k]]

\* os_environ.update(m)
environ_update(env, m) ==
    [k \in (DOMAIN env) \cup (DOMAIN m) |-> IF k \in DOMAIN m THEN m[k] ELSE env[k]]

\* resource.setrlimit(res, (limit, limit)) on the limits rl of the process
setrlimit(rl, res, limit) ==
    [r \in (DOMAIN rl) \cup {res} |-> IF r = res THEN limit ELSE rl[r]]

\* for res, limit in ResourceLimits.LIMITS.items(): setrlimit(...), from the
\* i-th entry on; the failAt-th call raises (0: none does) and ends the hook
RECURSIVE set_limits(_, _, _)
set_limits(i, failAt, st) ==
    IF i > Len(LIMITS) THEN st
    ELSE IF i = failAt THEN [st EXCEPT !.raised = TRUE]
    ELSE set_limits(i + 1, failAt,
             [st EXCEPT !.log = Append(@, LIMITS[i][1]),
                        !.rlimits = setrlimit(@, LIMITS[i][1], LIMITS[i][2])])

\* the hook with the failure of a setrlimit call suppressed
setup_sandbox_unchecked(env, failAt) ==
    LET st == set_limits(1, failAt,
                  [log |-> <<>>, rlimits |-> EmptyMap, env |-> env, raised |-> FALSE])
    IN  [st EXCEPT !.raised = FALSE,
                   !.env = environ_update(environ_clear(env), original_env(env)),
                   !.log = @ \o <<"environ.clear", "environ.update">>]

\* setup_sandbox() in the forked child whose inherited environment is env:
\* the state of the child when the hook ends or raises
setup_sandbox(env, failAt) ==
    LET st == set_limits(1, failAt,
                  [log |-> <<>>, rlimits |-> EmptyMap, env |-> env, raised |-> FALSE])
    IN  IF st.raised THEN st
        ELSE [st EXCEPT !.env = environ_update(environ_clear(env), original_env(env)),
                        !.log = @ \o <<"environ.clear", "environ.update">>]

(* ----------------------- execute (lines 87-129) ----------------------- *)
\* the chunks numbered from..to of a stream
chunks(from, to) == [i \in 1..(to - from + 1) |-> from + i - 1]

\* f"Execution terminated after {self.time_limit} seconds"
timeout_errmsg(t) == <<"Execution terminated after ", ToString(t), " seconds">>

\* if proc.returncode and not errmsg: errmsg = f"Process exited with code ..."
exit_errmsg(rc, errmsg) ==
    IF rc # 0 /\ errmsg = <<>>
    THEN <<"Process exited with code ", ToString(rc)>>
    ELSE errmsg

\* the except clauses with the broad one alone
except_errmsg_broad(cls) == <<"Unexpected error: ", cls, ": ", cls>>

\* the except clauses of execute: OSError first, then Exception
except_errmsg(cls) ==
    IF cls \in OSErrorClasses
    THEN <<"File system error: ", cls>>
    ELSE <<"Unexpected error: ", cls, ": ", cls>>

\* what execute returns when communicate() ended: line 129
execute_result(stdout, stderr, errmsg) ==
    [stdout |-> stdout, stderr |-> stderr, errmsg |-> errmsg,
     caught |-> "none", exc |-> "none"]

\* what execute returns when exception cls was raised in its try block:
\* stdout = stderr = b"" as line 93 set them, errmsg from the except clause
execute_caught(cls) ==
    [stdout |-> <<>>, stderr |-> <<>>, errmsg |-> except_errmsg(cls),
     caught |-> cls, exc |-> "none"]

\* the variable execute reads the program path from
command_var(sb) == IF sb.lint THEN "SANDBOX_RUFF" ELSE "SANDBOX_PYTHON"

\* the identity create_subprocess_exec gives the child: no user=, group= or
\* extra_groups= is passed, so the child keeps the identity of the host
child_identity == HostIdentity

\* if self.time_limit: a timeout is armed only for a truthy time_limit
timer_for(sb) == IF sb.time_limit # None /\ sb.time_limit # 0 THEN "armed" ELSE "off"

(* ------------- remote shell: text (sandbox.py, shell.py) -------------- *)
\* Text is a sequence of characters.  "sup2" is the character SUPERSCRIPT TWO
\* (a digit to str.isdigit, not to int), "xFF" a byte that is not UTF-8.
\* PROMPT_MARKER = b"$ "
PROMPT_MARKER == <<"$", " ">>

\* line.startswith(marker)
startswith(line, marker) ==
    Len(line) >= Len(marker) /\ SubSeq(line, 1, Len(marker)) = marker

\* line.decode() raises UnicodeDecodeError
decode_raises(line) == \E i \in 1..Len(line) : line[i] = "xFF"

\* "".join(buffer)
RECURSIVE join(_)
join(buf) == IF buf = <<>> THEN <<>> ELSE Head(buf) \o join(Tail(buf))

\* str.strip(): leading and trailing whitespace removed
IsSpace(ch) == ch \in {" ", "\n"}
RECURSIVE lstrip(_)
lstrip(s) == IF s # <<>> /\ IsSpace(Head(s)) THEN lstrip(Tail(s)) ELSE s
RECURSIVE rstrip(_)
rstrip(s) ==
    IF s # <<>> /\ IsSpace(s[Len(s)]) THEN rstrip(SubSeq(s, 1, Len(s) - 1)) ELSE s
strip(s) == rstrip(lstrip(s))

DecimalDigits == {"0", "1", "2"}
DigitValue(ch) == CASE ch = "0" -> 0 [] ch = "1" -> 1 [] OTHER -> 2

\* str.isdigit()
isdigit(s) == s # <<>> /\ \A i \in 1..Len(s) : s[i] \in DecimalDigits \cup {"sup2"}

\* int(s) raises ValueError
int_raises(s) == s = <<>> \/ \E i \in 1..Len(s) : s[i] \notin DecimalDigits

\* int(s) of a string of decimal digits
RECURSIVE int(_)
int(s) ==
    IF s = <<>> THEN 0
    ELSE int(SubSeq(s, 1, Len(s) - 1)) * 10 + DigitValue(s[Len(s)])

\* the lines a peer can send, as readline() returns them; a line with no
\* newline at its end is returned only when EOF follows it
LineOut == <<"a", "\n">>
LinePrompt == <<"$", " ", "\n">>
LinePromptBare == <<"$", " ">>
LineZero == <<"0", "\n">>
LineTwelve == <<" ", "1", "2", " ", "\n">>
LineSigned == <<"-", "1", "\n">>
LineSup == <<"sup2", "\n">>
LineBad == <<"xFF", "\n">>
LineLog == <<"l", "o", "g", "\n">>
LineErr == <<"n", "o", "\n">>
Lines ==
    {LineOut, LinePrompt, LinePromptBare, LineZero, LineTwelve, LineSigned,
     LineSup, LineBad}

\* line ends in a newline
terminated(line) == line # <<>> /\ line[Len(line)] = "\n"

\* CommandResult(stdout, stderr, exit_code), defaults "", "", 0
CommandResult(stdout, stderr, exit_code) ==
    [stdout |-> stdout, stderr |-> stderr, exit_code |-> exit_code]
NoCommandResult == [stdout |-> <<>>, stderr |-> "unset", exit_code |-> -1]

\* CommandResult.formatted_output, and the same lines of tool_shell: the
\* exit code, then stdout and stderr stripped, each only if not empty
formatted_output(res) ==
    <<"Exit code: ", ToString(res.exit_code)>>
    \o (IF strip(res.stdout) # <<>> THEN <<"Output:">> \o strip(res.stdout) ELSE <<>>)
    \o (IF res.stderr # "" THEN <<"Error:", res.stderr>> ELSE <<>>)

(* ------------ remote shell: values (sandbox.py, shell.py) ------------- *)
\* lines a peer sends on one connection at most
MaxLines == 4

Revisions == {"sandbox.py", "shell.py"}
\* SANDBOX (sandbox.py) or SANDBOX_SOCKET (shell.py): not in the environment,
\* the empty string, not host:port, an address nobody listens on, or good
Locations == {"unset", "empty", "malformed", "unreachable", "ok"}
Peers == {"stream", "shell"}
\* screen: str | None = None
NoScreen == ""
Screens == {NoScreen, "S"}
\* cwd: str = "~"; "/w" is a directory of the peer, "/nx" is not
Cwds == {"~", "/w", "/nx"}

NoRequest == [screen |-> NoScreen, cwd |-> "~"]
\* a run_command: cmd is "cd" or "main"; read is the _read_until_prompt in
\* progress; mark is how many lines the connection had delivered when it
\* began; expired is the read whose wait_for timed out
NoRun == [cmd |-> "none", read |-> "none", mark |-> 0, expired |-> "none"]
NoToolResult == [exc |-> "none", message |-> "", formatted |-> <<>>]

\* the tool returned the string text
Returned(text) == [exc |-> "none", message |-> "", formatted |-> text]
\* the tool raised exception cls with message msg
Raised(cls, msg) == [exc |-> cls, message |-> msg, formatted |-> <<>>]

\* what the code writes
WriteCommand(command) == <<command, "\n">>
\* shell.py, line 133: f"cd {cwd}"
CdCommand(cwd) == IF cwd = "/w" THEN "cd /w" ELSE "cd /nx"
ScreenCreate == <<"screen -dmS S 2>/dev/null || screen -S S -X stuff $'NL'">>
ScreenStuff == <<"screen -S S -X stuff 'ls NL'", "\n">>
ScreenHardcopy == <<"screen -S S -X hardcopy /tmp/mcp_screen.log", "\n">>
ScreenDetach == <<"screen -S S -X detach", "\n">>
ScreenCat == <<"cat /tmp/mcp_screen.log", "\n">>

\* the same three writes with the detach before the hardcopy
screen_snapshot_detach_first == <<ScreenDetach, ScreenHardcopy, ScreenCat>>

\* lines 74-82 of shell.py: the writes after the settle delay, in order
screen_snapshot == <<ScreenHardcopy, ScreenDetach, ScreenCat>>

\* a shell at the other end: the commands it has received in full (a
\* command ends at a newline outside quotes) ...
RECURSIVE commands_of(_, _)
commands_of(w, cur) ==
    IF w = <<>> THEN <<>>
    ELSE IF Head(w) = "\n" THEN <<cur>> \o commands_of(Tail(w), <<>>)
    ELSE commands_of(Tail(w), Append(cur, Head(w)))

\* ... what a command prints ...
shell_output(cmd) ==
    CASE cmd = <<>> -> <<>>
      [] cmd # <<>> /\ Head(cmd) = "ls" -> <<LineOut>>
      [] cmd # <<>> /\ Head(cmd) = "echo $?" -> <<LineZero>>
      [] cmd # <<>> /\ Head(cmd) = "cat /tmp/mcp_screen.log" -> <<LineLog>>
      [] cmd # <<>> /\ Head(cmd) = "cd /nx" -> <<LineErr>>
      [] OTHER -> <<>>

\* ... and the lines it sends: each command's output, then a prompt
RECURSIVE responses_to(_)
responses_to(cmds) ==
    IF cmds = <<>> THEN <<>>
    ELSE shell_output(Head(cmds)) \o <<LinePrompt>> \o responses_to(Tail(cmds))
responses(w) == responses_to(commands_of(w, <<>>))

\* the shell tools are not in use
ShellUnused ==
    /\ revision = "sandbox.py"
    /\ location = "unset"
    /\ peer = "stream"
    /\ sh_pc = "unused"
    /\ request = NoRequest
    /\ run = NoRun
    /\ writer = <<>>
    /\ received = <<>>
    /\ eof = FALSE
    /\ buffer = <<>>
    /\ output = <<>>
    /\ cmd_result = NoCommandResult
    /\ tool_result = NoToolResult
    /\ connection = "none"

\* no function is called on its own
NoCall == [fn |-> "none"]
NoOutcome == [state |-> "pending"]
FunctionsUnused == call = NoCall /\ outcome = NoOutcome

(* ------------------------------- state -------------------------------- *)
\* the host before any call; callers are the calls the client will make
InitWith(callers) ==
    /\ os_environ \in HostEnvironments
    /\ dirs = {}
    /\ script = [d \in DirNames |-> 0]
    /\ pc = [c \in Calls |-> IF c \in callers THEN "idle" ELSE "unused"]
    /\ args = [c \in Calls |-> NoArgs]
    /\ sandbox = [c \in Calls |-> NoSandbox]
    /\ child = [c \in Calls |-> NoChild]
    /\ timer = [c \in Calls |-> "off"]
    /\ lost = [c \in Calls |-> NoLoss]
    /\ result = [c \in Calls |-> NoResult]
    /\ ShellUnused
    /\ FunctionsUnused

Init == InitWith(Calls)

\* a client that makes one call
OneCallInit == InitWith({1})

\* the files left when the instance of call c is finalised
scripts_after_del(c) ==
    [d \in DirNames |-> IF d \in del_sandbox(dirs, sandbox[c]) THEN script[d] ELSE 0]

\* tool_python raises exception cls out of the constructor (line 153 is in
\* no try block); the traceback keeps the half-built instance alive
Raise(c, cls) ==
    /\ pc' = [pc EXCEPT ![c] = "raised"]
    /\ result' = [result EXCEPT ![c] = [NoResult EXCEPT !.exc = cls]]

\* execute returns res, tool_python formats it and returns (lines 129,
\* 154-155); its local `sandbox` is released on return, which runs __del__
Return(c, res) ==
    /\ pc' = [pc EXCEPT ![c] = "returned"]
    /\ result' = [result EXCEPT ![c] = res]
    /\ sandbox' = [sandbox EXCEPT ![c].live = FALSE]
    /\ dirs' = del_sandbox(dirs, sandbox[c])
    /\ script' = scripts_after_del(c)

(* ------------------- tool_python, line 153: staging ------------------- *)
\* SandboxedPython(code, time_limit if not lint else None, lint) and its
\* __post_init__; fault is the step of the staging the OS lets fail
Construct(c) ==
    /\ pc[c] = "idle"
    /\ \E code \in CodeKinds, tl \in TimeLimits, lint \in BOOLEAN,
          fault \in {"none", "mkdtemp", "mkdir", "write"} :
        LET a == [code |-> code, time_limit |-> tl, lint |-> lint]
            sb == [temp_dir |-> NoDir, time_limit |-> sandbox_time_limit(a),
                   lint |-> lint, live |-> TRUE]
        IN  /\ args' = [args EXCEPT ![c] = a]
            /\ IF fault = "mkdtemp" \/ mkdtemp_names(dirs) = {}
               THEN \* TemporaryDirectory() raises: _temp_dir is never assigned
                    /\ Raise(c, "FileExistsError")
                    /\ sandbox' = [sandbox EXCEPT ![c] = sb]
                    /\ UNCHANGED <<dirs, script>>
               ELSE \E d \in mkdtemp_names(dirs) :
                    \* the TemporaryDirectory object is dropped at once and its
                    \* finaliser removes d again; only the name is kept
                    /\ sandbox' = [sandbox EXCEPT ![c] = [sb EXCEPT !.temp_dir = d]]
                    /\ IF fault = "mkdir"
                       THEN /\ Raise(c, "OSError")
                            /\ UNCHANGED <<dirs, script>>
                       ELSE IF fault = "write" \/ code = "surrogate"
                       THEN /\ Raise(c, IF fault = "write" THEN "OSError"
                                        ELSE "UnicodeEncodeError")
                            /\ dirs' = dirs \cup {d}
                            /\ script' = [script EXCEPT ![d] = 0]
                       ELSE /\ pc' = [pc EXCEPT ![c] = "created"]
                            /\ dirs' = dirs \cup {d}
                            /\ script' = [script EXCEPT ![d] = c]
                            /\ UNCHANGED result
    /\ UNCHANGED <<os_environ, child, timer, lost>>
    /\ UNCHANGED <<sh_vars, fn_vars>>

\* the caller drops the exception tool_python raised: the traceback and
\* with it the instance are released, and __del__ runs
DropException(c) ==
    /\ pc[c] = "raised"
    /\ pc' = [pc EXCEPT ![c] = "dropped"]
    /\ sandbox' = [sandbox EXCEPT ![c].live = FALSE]
    /\ dirs' = del_sandbox(dirs, sandbox[c])
    /\ script' = scripts_after_del(c)
    /\ UNCHANGED <<os_environ, args, child, timer, lost, result>>
    /\ UNCHANGED <<sh_vars, fn_vars>>

(* ---------------------- execute, lines 93-108: spawn ------------------ *)
\* the child as fork leaves it, after the hook left it in state st
forked(st) ==
    [NoChild EXCEPT !.state = "aborted", !.log = st.log, !.rlimits = st.rlimits,
                    !.env = st.env, !.identity = child_identity]

\* await create_subprocess_exec(...): the lookup of the program path, the
\* fork, the hook in the child, and the exec.  failAt is the setrlimit call
\* the OS rejects (0: none), execFails whether the exec of the program fails.
Spawn(c) ==
    /\ pc[c] = "created"
    /\ LET sb == sandbox[c]
       IN  IF command_var(sb) \notin DOMAIN os_environ
           THEN \* os_environ[...] raises KeyError before anything is spawned
                /\ Return(c, execute_caught("KeyError"))
                /\ UNCHANGED <<child, timer>>
           ELSE IF sb.temp_dir \notin dirs
           THEN \* cwd is gone: the forked child fails before it runs the hook
                /\ Return(c, execute_caught("FileNotFoundError"))
                /\ child' = [child EXCEPT ![c] =
                                forked([log |-> <<>>, rlimits |-> EmptyMap, env |-> os_environ])]
                /\ UNCHANGED timer
           ELSE \E failAt \in 0..Len(LIMITS), execFails \in BOOLEAN :
                LET st == setup_sandbox(os_environ, failAt)
                IN  IF st.raised
                    THEN \* the child exits without exec; the parent gets SubprocessError
                         /\ Return(c, execute_caught("SubprocessError"))
                         /\ child' = [child EXCEPT ![c] = forked(st)]
                         /\ UNCHANGED timer
                    ELSE IF execFails
                    THEN /\ Return(c, execute_caught("FileNotFoundError"))
                         /\ child' = [child EXCEPT ![c] = forked(st)]
                         /\ UNCHANGED timer
                    ELSE /\ child' = [child EXCEPT ![c] =
                                         [forked(st) EXCEPT !.state = "running", !.pipes = "open"]]
                         /\ pc' = [pc EXCEPT ![c] = "communicate"]
                         /\ timer' = [timer EXCEPT ![c] = timer_for(sb)]
                         /\ UNCHANGED <<result, sandbox, dirs, script>>
    /\ UNCHANGED <<os_environ, args, lost>>
    /\ UNCHANGED <<sh_vars, fn_vars>>

(* ------------------------- the sandboxed child ------------------------ *)
\* the program writes a chunk to its stdout
ChildWrite(c) ==
    /\ child[c].state = "running"
    /\ child[c].out < MaxChunks
    /\ child' = [child EXCEPT ![c].out = @ + 1]
    /\ UNCHANGED <<os_environ, dirs, script, pc, args, sandbox, timer, lost, result>>
    /\ UNCHANGED <<sh_vars, fn_vars>>

\* the program ends on its own: code 0, or a traceback on stderr and code 1.
\* held: a descendant of the child still holds the write ends of the pipes
ChildExit(c) ==
    /\ child[c].state = "running"
    /\ args[c].code \in {"exit0", "exit1"}
    /\ \E held \in BOOLEAN :
        child' = [child EXCEPT ![c].state = "exited",
                               ![c].rc = IF args[c].code = "exit0" THEN 0 ELSE 1,
                               ![c].err = IF args[c].code = "exit0" THEN 0 ELSE 1,
                               ![c].pipes = IF held THEN "open" ELSE "closed"]
    /\ UNCHANGED <<os_environ, dirs, script, pc, args, sandbox, timer, lost, result>>
    /\ UNCHANGED <<sh_vars, fn_vars>>

\* SIGKILL, once sent, ends the child
ChildKilled(c) ==
    /\ child[c].state = "running"
    /\ child[c].killed
    /\ \E held \in BOOLEAN :
        child' = [child EXCEPT ![c].state = "exited", ![c].rc = KilledCode,
                               ![c].pipes = IF held THEN "open" ELSE "closed"]
    /\ UNCHANGED <<os_environ, dirs, script, pc, args, sandbox, timer, lost, result>>
    /\ UNCHANGED <<sh_vars, fn_vars>>

\* the last holder of the pipes' write ends is gone: the host reads EOF
PipesClose(c) ==
    /\ child[c].state = "exited"
    /\ child[c].pipes = "open"
    /\ child' = [child EXCEPT ![c].pipes = "closed"]
    /\ UNCHANGED <<os_environ, dirs, script, pc, args, sandbox, timer, lost, result>>
    /\ UNCHANGED <<sh_vars, fn_vars>>

(* ------------------ execute, lines 110-122: communicate --------------- *)
\* proc.communicate() is over when both pipes are at EOF and the child is reaped
communicated(ch) == ch.state = "exited" /\ ch.pipes = "closed"

\* a handler that sends no signal
kill_unsent(ch) == ch

\* proc.kill(): SIGKILL to a child that still runs, nothing otherwise
kill(ch) == IF ch.state = "running" THEN [ch EXCEPT !.killed = TRUE] ELSE ch

\* lines 113 and 119: communicate() ends before any timeout, then lines 121-122
CommunicateDone(c) ==
    /\ pc[c] = "communicate"
    /\ communicated(child[c])
    /\ Return(c, execute_result(chunks(1, child[c].out), chunks(1, child[c].err),
                                exit_errmsg(child[c].rc, <<>>)))
    /\ timer' = [timer EXCEPT ![c] = "off"]
    /\ UNCHANGED <<os_environ, args, child, lost>>
    /\ UNCHANGED <<sh_vars, fn_vars>>

\* lines 114-116: the timeout cancels communicate(), whose reads drop the
\* chunks they had taken so far; the handler kills and communicates again
OnTimeout(c) ==
    /\ pc[c] = "communicate"
    /\ timer[c] = "armed"
    /\ timer' = [timer EXCEPT ![c] = "expired"]
    /\ child' = [child EXCEPT ![c] = kill(@)]
    /\ \E lo \in 0..child[c].out, le \in 0..child[c].err :
        lost' = [lost EXCEPT ![c] = [out |-> lo, err |-> le]]
    /\ pc' = [pc EXCEPT ![c] = "drain"]
    /\ UNCHANGED <<os_environ, dirs, script, args, sandbox, result>>
    /\ UNCHANGED <<sh_vars, fn_vars>>

\* lines 116-117, 121-122: the second communicate() ends
DrainDone(c) ==
    /\ pc[c] = "drain"
    /\ communicated(child[c])
    /\ Return(c, execute_result(chunks(lost[c].out + 1, child[c].out),
                                chunks(lost[c].err + 1, child[c].err),
                                exit_errmsg(child[c].rc,
                                            timeout_errmsg(sandbox[c].time_limit))))
    /\ lost' = [lost EXCEPT ![c] = NoLoss]
    /\ UNCHANGED <<os_environ, args, child, timer>>
    /\ UNCHANGED <<sh_vars, fn_vars>>

Next ==
    \/ \E c \in Calls : Construct(c)
    \/ \E c \in Calls : DropException(c)
    \/ \E c \in Calls : Spawn(c)
    \/ \E c \in Calls : ChildWrite(c)
    \/ \E c \in Calls : ChildExit(c)
    \/ \E c \in Calls : ChildKilled(c)
    \/ \E c \in Calls : PipesClose(c)
    \/ \E c \in Calls : CommunicateDone(c)
    \/ \E c \in Calls : OnTimeout(c)
    \/ \E c \in Calls : DrainDone(c)

Spec == Init /\ [][Next]_vars

OneCallSpec == OneCallInit /\ [][Next]_vars

(* ------------- remote shell: one tool call on one connection ---------- *)
\* a tool call is about to be made, by either revision, to any location
ShellInit ==
    /\ os_environ = EmptyMap
    /\ dirs = {}
    /\ script = [d \in DirNames |-> 0]
    /\ pc = [c \in Calls |-> "unused"]
    /\ args = [c \in Calls |-> NoArgs]
    /\ sandbox = [c \in Calls |-> NoSandbox]
    /\ child = [c \in Calls |-> NoChild]
    /\ timer = [c \in Calls |-> "off"]
    /\ lost = [c \in Calls |-> NoLoss]
    /\ result = [c \in Calls |-> NoResult]
    /\ revision \in Revisions
    /\ location \in Locations
    /\ peer \in Peers
    /\ sh_pc = "idle"
    /\ request = NoRequest
    /\ run = NoRun
    /\ writer = <<>>
    /\ received = <<>>
    /\ eof = FALSE
    /\ buffer = <<>>
    /\ output = <<>>
    /\ cmd_result = NoCommandResult
    /\ tool_result = NoToolResult
    /\ connection = "none"
    /\ FunctionsUnused

\* the tool call moves on: position, run_command, stream written, buffer,
\* output, and the results
Goto(pc2, r, w, buf, out, res, tres, conn) ==
    /\ sh_pc' = pc2
    /\ run' = r
    /\ writer' = w
    /\ buffer' = buf
    /\ output' = out
    /\ cmd_result' = res
    /\ tool_result' = tres
    /\ connection' = conn

\* the run_command that begins when the connection has delivered n lines
NewRun(cmd, n) == [cmd |-> cmd, read |-> "primary", mark |-> n, expired |-> "none"]

\* sandbox.py, lines 160-163: tool_sandbox returns without a call of
\* close(); the connection it leaves behind stays open, or the interpreter
\* has finalised the stream already, which depends on the interpreter and
\* on what still refers to the stream
unclosed == {"open", "finalised"}

\* sandbox.py, lines 120-124 and 162-163: run_command returns res (a result
\* or what an except clause made of an exception), tool_sandbox formats it
sandbox_return(res, r, w) ==
    \E conn \in unclosed :
        Goto("returned", r, w, <<>>, output, res, Returned(formatted_output(res)), conn)

\* sandbox.py, line 124: except Exception as e: CommandResult(stderr=str(e), exit_code=1)
sandbox_caught(msg, r, w) == sandbox_return(CommandResult(<<>>, msg, 1), r, w)

\* shell.py: an exception leaves run_command (its writes are in no try
\* block, its reads catch TimeoutError alone); tool_shell closes the
\* connection in its finally clause and the exception goes to the caller
shell_raise(cls, r, w) ==
    Goto("raised", r, w, <<>>, output, cmd_result, Raised(cls, cls), "closed")

\* shell.py, lines 56-88 for the command of the tool call, from the first
\* write to the first suspension that is not a drain; failAt is the drain
\* that finds the connection lost (0: none)
shell_main(failAt, w, n) ==
    IF request.screen # NoScreen
    THEN IF failAt = 1
         THEN shell_raise("ConnectionResetError", NewRun("main", n), w \o ScreenCreate)
         ELSE IF failAt = 2
         THEN shell_raise("ConnectionResetError", NewRun("main", n),
                          w \o ScreenCreate \o ScreenStuff)
         ELSE Goto("settle", NewRun("main", n), w \o ScreenCreate \o ScreenStuff,
                   <<>>, <<>>, cmd_result, tool_result, connection)
    ELSE IF failAt # 0
         THEN shell_raise("ConnectionResetError", NewRun("main", n), w \o WriteCommand("ls"))
         ELSE Goto("read", NewRun("main", n), w \o WriteCommand("ls"),
                   <<>>, <<>>, cmd_result, tool_result, connection)

\* shell.py: run_command returns res; the result of the cd is dropped and
\* the command follows (lines 133-135), the command's is formatted (137-147)
shell_return(res, r, failAt, n) ==
    IF r.cmd = "cd"
    THEN shell_main(failAt, writer, n)
    ELSE Goto("returned", r, writer, <<>>, output, res,
              Returned(formatted_output(res)), "closed")

\* a result that reports 0 when the response is no number
exit_code_zero(exit_code_str) ==
    IF isdigit(exit_code_str) THEN int(exit_code_str) ELSE 0

\* sandbox.py, line 118: int(exit_code_str) if exit_code_str.isdigit() else 1
exit_code(exit_code_str) ==
    IF isdigit(exit_code_str) THEN int(exit_code_str) ELSE 1

\* _read_until_prompt returns "".join(buffer) when the connection has
\* delivered n lines, and its run_command goes on to its next suspension
read_end(failAt, n) ==
    LET v == join(buffer)
    IN  IF revision = "sandbox.py"
        THEN IF run.read = "primary"
             THEN \* lines 113-117: output is kept, 'echo $?' is written
                  /\ failAt <= 1
                  /\ IF failAt = 1
                     THEN sandbox_caught("Connection lost", run,
                                         writer \o WriteCommand("echo $?"))
                     ELSE Goto("read", [run EXCEPT !.read = "exit_code"],
                               writer \o WriteCommand("echo $?"), <<>>, v,
                               cmd_result, tool_result, connection)
             ELSE \* lines 117-120
                  /\ failAt = 0
                  /\ IF isdigit(strip(v)) /\ int_raises(strip(v))
                     THEN sandbox_caught("invalid literal for int()", run, writer)
                     ELSE sandbox_return(CommandResult(output, "", exit_code(strip(v))),
                                         run, writer)
        ELSE \* shell.py, line 92
             /\ (run.cmd = "main" => failAt = 0)
             /\ shell_return(CommandResult(v, "", 0), run, failAt, n)

\* ShellConnection.connect() as the tool's first step
Connect ==
    /\ sh_pc = "idle"
    /\ \E screen \in Screens, cwd \in Cwds :
        /\ revision = "sandbox.py" => (screen = NoScreen /\ cwd = "~")
        /\ request' = [screen |-> screen, cwd |-> cwd]
    /\ IF revision = "sandbox.py"
       THEN IF location \in {"unset", "empty"}
            THEN Goto("raised", run, writer, buffer, output, cmd_result,
                      Raised("McpError", "SANDBOX environment variable is not set"), "none")
            ELSE IF location = "malformed"
            THEN Goto("raised", run, writer, buffer, output, cmd_result,
                      Raised("McpError", "Failed to connect to sandbox: ValueError"), "none")
            ELSE IF location = "unreachable"
            THEN Goto("raised", run, writer, buffer, output, cmd_result,
                      Raised("McpError", "Failed to connect to sandbox: OSError"), "refused")
            ELSE Goto("connected", run, writer, buffer, output, cmd_result,
                      tool_result, "open")
       ELSE IF location = "unset"
            THEN \* os.environ["SANDBOX_SOCKET"] raises KeyError
                 Goto("raised", run, writer, buffer, output, cmd_result,
                      Raised("KeyError", "SANDBOX_SOCKET"), "none")
            ELSE IF location # "ok"
            THEN Goto("raised", run, writer, buffer, output, cmd_result,
                      Raised("OSError", "OSError"), "refused")
            ELSE Goto("connected", run, writer, buffer, output, cmd_result,
                      tool_result, "open")
    /\ UNCHANGED <<revision, location, peer, received, eof>>
    /\ UNCHANGED <<py_vars, fn_vars>>

\* the tool's first run_command, up to its first suspension
StartCommand ==
    /\ sh_pc = "connected"
    /\ \E failAt \in 0..2 :
        IF revision = "sandbox.py"
        THEN /\ failAt <= 1
             /\ IF failAt = 1
                THEN sandbox_caught("Connection lost", NewRun("main", 0),
                                    writer \o WriteCommand("ls"))
                ELSE Goto("read", NewRun("main", 0), writer \o WriteCommand("ls"),
                          <<>>, <<>>, cmd_result, tool_result, connection)
        ELSE IF request.cwd # "~"
        THEN /\ failAt <= 1
             /\ IF failAt = 1
                THEN shell_raise("ConnectionResetError", NewRun("cd", 0),
                                 writer \o WriteCommand(CdCommand(request.cwd)))
                ELSE Goto("read", NewRun("cd", 0),
                          writer \o WriteCommand(CdCommand(request.cwd)),
                          <<>>, <<>>, cmd_result, tool_result, connection)
        ELSE shell_main(failAt, writer, 0)
    /\ UNCHANGED <<revision, location, peer, request, received, eof>>
    /\ UNCHANGED <<py_vars, fn_vars>>

\* shell.py, lines 73-88: the settle delay is over
Settle ==
    /\ sh_pc = "settle"
    /\ \E failAt \in 0..3 :
        IF failAt = 0
        THEN Goto("read", run, writer \o join(screen_snapshot), <<>>, <<>>,
                  cmd_result, tool_result, connection)
        ELSE shell_raise("ConnectionResetError", run,
                         writer \o join(SubSeq(screen_snapshot, 1, failAt)))
    /\ UNCHANGED <<revision, location, peer, request, received, eof>>
    /\ UNCHANGED <<py_vars, fn_vars>>

\* readline() returns a line the peer sent
ReadLine ==
    /\ sh_pc = "read"
    /\ ~eof
    /\ \E l \in Lines \cup {LineLog, LineErr}, failAt \in 0..2 :
        /\ IF peer = "stream"
           THEN l \in Lines /\ Len(received) < MaxLines
           ELSE /\ Len(received) < Len(responses(writer))
                /\ l = responses(writer)[Len(received) + 1]
        /\ received' = Append(received, l)
        /\ eof' = ~terminated(l)
        /\ IF startswith(l, PROMPT_MARKER)
           THEN read_end(failAt, Len(received) + 1)
           ELSE /\ failAt = 0
                /\ IF decode_raises(l)
                   THEN IF revision = "sandbox.py"
                        THEN sandbox_caught("codec can't decode", run, writer)
                        ELSE shell_raise("UnicodeDecodeError", run, writer)
                   ELSE Goto("read", run, writer, Append(buffer, l), output,
                             cmd_result, tool_result, connection)
    /\ UNCHANGED <<revision, location, peer, request>>
    /\ UNCHANGED <<py_vars, fn_vars>>

\* readline() returns b"": the peer closed the stream
ReadEOF ==
    /\ sh_pc = "read"
    /\ peer = "stream"
    /\ eof' = TRUE
    /\ \E failAt \in 0..2 : read_end(failAt, Len(received))
    /\ UNCHANGED <<revision, location, peer, request, received>>
    /\ UNCHANGED <<py_vars, fn_vars>>

\* readline() raises: the connection is lost
ReadFail ==
    /\ sh_pc = "read"
    /\ peer = "stream"
    /\ ~eof
    /\ IF revision = "sandbox.py"
       THEN sandbox_caught("Connection lost", run, writer)
       ELSE shell_raise("ConnectionResetError", run, writer)
    /\ UNCHANGED <<revision, location, peer, request, received, eof>>
    /\ UNCHANGED <<py_vars, fn_vars>>

\* wait_for gives up on the read: TimeoutError
ReadTimeout ==
    /\ sh_pc = "read"
    /\ ~eof
    /\ LET r == [run EXCEPT !.expired = run.read]
       IN  IF revision = "sandbox.py"
           THEN sandbox_return(CommandResult(<<>>, "Command timed out", 1), r, writer)
           ELSE \E failAt \in 0..2 :
                   /\ (run.cmd = "main" => failAt = 0)
                   /\ shell_return(CommandResult(<<>>, "Command timed out", 1), r,
                                   failAt, Len(received))
    /\ UNCHANGED <<revision, location, peer, request, received, eof>>
    /\ UNCHANGED <<py_vars, fn_vars>>

ShellNext ==
    \/ Connect
    \/ StartCommand
    \/ Settle
    \/ ReadLine
    \/ ReadEOF
    \/ ReadFail
    \/ ReadTimeout

ShellSpec == ShellInit /\ [][ShellNext]_vars

(* ------------- format_output (python.py, lines 131-144) --------------- *)
\* longest stdout, stderr and error message of a format_output call
MaxTextLen == 2

\* the strings over an alphabet, up to n characters long
Strings(alphabet, n) == UNION {[1..k -> alphabet] : k \in 0..n}

\* a bytes object and a str: equal only to a value of their own type
Bytes(chars) == [type |-> "bytes", chars |-> chars]
Str(chars) == [type |-> "str", chars |-> chars]

\* bytes.decode(errors="replace"): U+FFFD for a byte that is not UTF-8
decode_replace(b) == [i \in 1..Len(b) |-> IF b[i] = "xFF" THEN "U+FFFD" ELSE b[i]]

\* the three backticks that open and close a section
Fence == "fence"

\* f"{section}:\n [fence] \n{section}\n [fence]"
section_text(section) ==
    section \o <<":", "\n", Fence, "\n">> \o section \o <<"\n", Fence>>

\* the loop body, for the elements of the set in the order they come in
RECURSIVE sections_of(_)
sections_of(order) ==
    IF order = <<>> THEN <<>>
    ELSE LET v == Head(order)
             section == strip(IF v.type = "bytes" THEN decode_replace(v.chars)
                              ELSE v.chars)
         IN  (IF section # <<>> THEN <<section_text(section)>> ELSE <<>>)
             \o sections_of(Tail(order))

\* "\n\n".join(sections)
RECURSIVE join_sections(_)
join_sections(sections) ==
    IF sections = <<>> THEN <<>>
    ELSE IF Len(sections) = 1 THEN sections[1]
    ELSE sections[1] \o <<"\n", "\n">> \o join_sections(Tail(sections))

\* the orders in which a set can be iterated
Orders(S) ==
    {o \in [1..Cardinality(S) -> S] : \A i, j \in 1..Cardinality(S) : i # j => o[i] # o[j]}

\* format_output: for section in {stdout, stderr, errmsg}; the set holds
\* equal values once and has no order of its own, so the strings the call
\* can return are one for each order
format_output(stdout, stderr, errmsg) ==
    {join_sections(sections_of(o)) : o \in Orders({stdout, stderr, errmsg})}

\* the text of the chunks chs of a child's stream, each chunk the text ch
chunk_text(chs, ch) == [i \in 1..Len(chs) |-> ch]

\* tool_python, lines 154-155: the strings call c can return for the triple
\* execute gave it
tool_python_returns(c) ==
    format_output(Bytes(chunk_text(result[c].stdout, "o")),
                  Bytes(chunk_text(result[c].stderr, "e")),
                  Str(result[c].errmsg))

(* ------------------- sanitise_path (workspace.py) --------------------- *)
\* longest path given to sanitise_path, in characters
MaxPathLen == 4

\* what a call returned, and the McpError it raised
returns(v) == [state |-> "returned", value |-> v, message |-> ""]
raises(msg) == [state |-> "raised", value |-> <<>>, message |-> msg]

\* the path components "." and ".."
Dot == <<".">>
DotDot == <<".", ".">>

\* the pieces of s between its slashes; cur is the piece in progress
RECURSIVE split(_, _)
split(s, cur) ==
    IF s = <<>> THEN <<cur>>
    ELSE IF Head(s) = "/" THEN <<cur>> \o split(Tail(s), <<>>)
    ELSE split(Tail(s), Append(cur, Head(s)))

\* the number of slashes s begins with
RECURSIVE leading_slashes(_)
leading_slashes(s) ==
    IF s # <<>> /\ Head(s) = "/" THEN 1 + leading_slashes(Tail(s)) ELSE 0

\* pathlib.Path(s) on POSIX: the root is "/" for a path that begins with
\* slashes, "//" when they are exactly two; empty pieces and "." are dropped
Path(s) ==
    [root |-> IF leading_slashes(s) = 0 THEN ""
              ELSE IF leading_slashes(s) = 2 THEN "//" ELSE "/",
     names |-> SelectSeq(split(s, <<>>), LAMBDA n : n # <<>> /\ n # Dot)]

\* get_workspace_dir(): /workspace; a directory outside of it; and the name
\* of an entry of the workspace that can be a symbolic link to that directory
WorkspaceDir == << <<"w">> >>
OutsideDir == << <<"e">> >>
LinkName == <<"l">>

\* Path.resolve() of the names ns below the directory cur: ".." leaves the
\* directory reached so far, a symbolic link leads to its target
RECURSIVE resolve(_, _, _)
resolve(cur, ns, link) ==
    IF ns = <<>> THEN cur
    ELSE LET n == Head(ns)
             next == IF n = DotDot
                     THEN SubSeq(cur, 1, Len(cur) - 1)
                     ELSE IF link /\ cur = WorkspaceDir /\ n = LinkName
                     THEN OutsideDir
                     ELSE Append(cur, n)
         IN  resolve(next, Tail(ns), link)

\* clean.is_relative_to(workspace)
is_relative_to(clean, dir) ==
    Len(clean) >= Len(dir) /\ SubSeq(clean, 1, Len(dir)) = dir

\* any(part.startswith(".") for part in parts)
any_hidden(parts) == \E i \in 1..Len(parts) : startswith(parts[i], Dot)

\* src/mcp_server/tools/workspace.py, lines 28-59: the checks on Path.parts
sanitise_path_parts(path) ==
    LET clean == Path(path)
    IN  IF clean.root = "" /\ clean.names = <<>> THEN returns(Path(<<>>))
        ELSE IF clean.root = "/" \/ \E i \in 1..Len(clean.names) : clean.names[i] = DotDot
        THEN raises("Path cannot be absolute or contain parent traversal")
        ELSE IF any_hidden(clean.names)
        THEN raises("Path cannot contain hidden/special components")
        ELSE returns(clean)

\* src/server/mcp_server/tools/workspace.py, lines 28-70: the checks on the
\* resolved path
sanitise_path_resolved(path, link) ==
    IF startswith(path, DotDot) \/ startswith(path, <<"/">>)
    THEN raises("Path cannot escape workspace root")
    ELSE LET clean == resolve(WorkspaceDir, Path(path).names, link)
             relative == SubSeq(clean, Len(WorkspaceDir) + 1, Len(clean))
         IN  IF ~is_relative_to(clean, WorkspaceDir)
             THEN raises("Path cannot escape workspace root")
             ELSE IF any_hidden(relative)
             THEN raises("Path cannot contain hidden/special components")
             ELSE returns([root |-> "", names |-> relative])

\* the two revisions of workspace.py
WorkspaceRevisions == {"mcp_server", "server/mcp_server"}

sanitise_path(rev, path, link) ==
    IF rev = "mcp_server" THEN sanitise_path_parts(path)
    ELSE sanitise_path_resolved(path, link)

(* --------------------- read_file (workspace.py) ----------------------- *)
\* longest file read, in bytes
MaxFileLen == 3

\* f.read(n) on a file opened "rb": n bytes, or all that are left
read(file, n) == SubSeq(file, 1, IF n < Len(file) THEN n ELSE Len(file))

\* max_length > 0 and len(data) >= max_length
truncated(data, max_length) == max_length > 0 /\ Len(data) >= max_length

\* read_file(path, max_length) of a file with the bytes file, or of a path
\* that cannot be opened (OSError)
read_file(exists, file, max_length) ==
    IF ~exists THEN raises("Error reading file: OSError")
    ELSE LET data == IF max_length > 0 THEN read(file, max_length) ELSE file
         IN  returns([content |-> decode_replace(data),
                      truncated |-> truncated(data, max_length)])

(* ------------------ the functions, each called once ------------------- *)
\* the calls of format_output, sanitise_path and read_file
FormatCalls ==
    [fn : {"format_output"},
     stdout : {Bytes(t) : t \in Strings({"a", " ", "xFF"}, MaxTextLen)},
     stderr : {Bytes(t) : t \in Strings({"a", " ", "xFF"}, MaxTextLen)},
     errmsg : {Str(t) : t \in Strings({"a", " "}, MaxTextLen)}]

PathCalls ==
    [fn : {"sanitise_path"},
     revision : WorkspaceRevisions,
     path : Strings({"/", ".", "a", "l"}, MaxPathLen),
     link : BOOLEAN]

ReadCalls ==
    [fn : {"read_file"},
     exists : BOOLEAN,
     file : Strings({"a", "xFF"}, MaxFileLen),
     max_length : (-1)..(MaxFileLen + 1)]

\* one function is about to be called; the tools are not in use
FunctionInit ==
    /\ os_environ = EmptyMap
    /\ dirs = {}
    /\ script = [d \in DirNames |-> 0]
    /\ pc = [c \in Calls |-> "unused"]
    /\ args = [c \in Calls |-> NoArgs]
    /\ sandbox = [c \in Calls |-> NoSandbox]
    /\ child = [c \in Calls |-> NoChild]
    /\ timer = [c \in Calls |-> "off"]
    /\ lost = [c \in Calls |-> NoLoss]
    /\ result = [c \in Calls |-> NoResult]
    /\ ShellUnused
    /\ call \in FormatCalls \cup PathCalls \cup ReadCalls
    /\ outcome = NoOutcome

\* SandboxedPython.format_output(stdout, stderr, errmsg)
FormatOutput ==
    /\ call.fn = "format_output"
    /\ outcome = NoOutcome
    /\ \E text \in format_output(call.stdout, call.stderr, call.errmsg) :
        outcome' = returns(text)
    /\ UNCHANGED <<call, py_vars, sh_vars>>

\* sanitise_path(path)
SanitisePath ==
    /\ call.fn = "sanitise_path"
    /\ outcome = NoOutcome
    /\ outcome' = sanitise_path(call.revision, call.path, call.link)
    /\ UNCHANGED <<call, py_vars, sh_vars>>

\* read_file(path, max_length)
ReadFile ==
    /\ call.fn = "read_file"
    /\ outcome = NoOutcome
    /\ outcome' = read_file(call.exists, call.file, call.max_length)
    /\ UNCHANGED <<call, py_vars, sh_vars>>

FunctionNext ==
    \/ FormatOutput
    \/ SanitisePath
    \/ ReadFile

FunctionSpec == FunctionInit /\ [][FunctionNext]_vars

(* ------------------------------- claims ------------------------------- *)
\* the untrusted program image of call c has been started
Started(c) == child[c].state \in {"running", "exited"}

\* tool_python of call c is over: it returned or it raised
Over(c) == pc[c] \in {"returned", "raised", "dropped"}

LimitNames == {LIMITS[i][1] : i \in 1..Len(LIMITS)}

\* s is the end of the chunks 1..n of a stream
IsSuffixOfStream(s, n) ==
    /\ Len(s) <= n
    /\ \A i \in 1..Len(s) : s[i] = n - Len(s) + i

\* C1: with a non-zero time_limit T, once the limit has expired a child that
\* still runs has been sent SIGKILL; execute then returns only after the
\* child has ended and its pipes are drained to EOF, with what was left of
\* stdout/stderr and the message 'Execution terminated after T seconds'; no
\* call returns while its child runs.
C1_TimeoutKillsDrainsReports ==
    \A c \in Calls :
        /\ (timer[c] = "expired" /\ child[c].state = "running") => child[c].killed
        /\ (timer[c] = "expired" /\ pc[c] = "returned") =>
              /\ args[c].time_limit # 0
              /\ result[c].errmsg =
                    <<"Execution terminated after ", ToString(args[c].time_limit), " seconds">>
              /\ child[c].state = "exited"
              /\ child[c].pipes = "closed"
              /\ IsSuffixOfStream(result[c].stdout, child[c].out)
              /\ IsSuffixOfStream(result[c].stderr, child[c].err)
        /\ pc[c] = "returned" => child[c].state # "running"

\* C1 witness: a call returned after its limit expired on a running child,
\* which SIGKILL ended
C1_Witness ==
    \E c \in Calls :
        /\ pc[c] = "returned"
        /\ timer[c] = "expired"
        /\ child[c].killed
        /\ child[c].rc = KilledCode
        /\ result[c].stdout # <<>>

\* C2: in execution mode (lint = false) a time limit is in force whenever
\* the host waits for a program that never ends, for every time_limit a
\* caller passes: the wait ends by the timeout, since nothing else ends it
C2_ExecutionAlwaysTimed ==
    \A c \in Calls :
        (pc[c] = "communicate" /\ ~args[c].lint /\ args[c].code = "loop") =>
            timer[c] = "armed"

\* C3: once tool_python has returned or raised, the temp directory staged
\* for its instance does not exist
C3_TempDirGoneWhenCallIsOver ==
    \A c \in Calls : Over(c) => sandbox[c].temp_dir \notin dirs

\* the instance of call c is alive and was constructed to the end
Staged(c) == sandbox[c].live /\ pc[c] \in {"created", "communicate", "drain"}

\* C4: the staging directories of live instances are pairwise distinct, and
\* the directory of a live instance is not removed by another instance
C4_StagingDirsExclusive ==
    /\ \A c1, c2 \in Calls :
          (c1 # c2 /\ Staged(c1) /\ Staged(c2)) =>
              sandbox[c1].temp_dir # sandbox[c2].temp_dir
    /\ \A c \in Calls :
          Staged(c) => (sandbox[c].temp_dir \in dirs /\ script[sandbox[c].temp_dir] = c)

\* C5: the environment of a started child is exactly the host's variables
\* whose names are on the allow-list, with the host's values
C5_ChildEnvIsAllowList ==
    \A c \in Calls :
        Started(c) =>
            /\ DOMAIN child[c].env = (DOMAIN os_environ) \cap ALLOWED_ENV_VARS
            /\ \A k \in DOMAIN child[c].env : child[c].env[k] = os_environ[k]
            /\ \A k \in (DOMAIN os_environ) \ ALLOWED_ENV_VARS :
                  k \notin DOMAIN child[c].env

\* C5 witness: a child was started by a host that holds a secret and an
\* allow-listed variable
C5_Witness ==
    \E c \in Calls :
        /\ Started(c)
        /\ "SECRET_TOKEN" \in DOMAIN os_environ
        /\ "SANDBOX_PYTHON" \in DOMAIN child[c].env

\* C6: a child in which a limit could not be set never starts the program,
\* and its call returns an error result; every started program has all five
\* limits set
C6_LimitFailureAbortsChild ==
    \A c \in Calls :
        /\ Started(c) =>
              /\ DOMAIN child[c].rlimits = LimitNames
              /\ \A i \in 1..Len(LIMITS) : child[c].rlimits[LIMITS[i][1]] = LIMITS[i][2]
        /\ (child[c].state # "none" /\ DOMAIN child[c].rlimits # LimitNames) =>
              /\ child[c].state = "aborted"
              /\ pc[c] = "returned"
              /\ result[c].errmsg # <<>>
              /\ result[c].stdout = <<>>

\* C6 witness: the third setrlimit failed, and the call returned an error
C6_Witness ==
    \E c \in Calls :
        /\ child[c].state = "aborted"
        /\ child[c].log = <<"RLIMIT_AS", "RLIMIT_CPU">>
        /\ pc[c] = "returned"
        /\ result[c].caught = "SubprocessError"

\* C7: a started child does not have the identity of the host process
C7_ChildDropsPrivileges ==
    \A c \in Calls : Started(c) => child[c].identity # HostIdentity

\* C8: when the program starts, the hook has set the five limits in the
\* order address space, CPU time, process count, file size, core size 0,
\* and after them cleared and restored the environment; after the start no
\* limit is set or changed
C8_LimitsInOrderThenEnv ==
    /\ [](\A c \in Calls :
            Started(c) =>
                /\ child[c].log =
                      <<"RLIMIT_AS", "RLIMIT_CPU", "RLIMIT_NPROC", "RLIMIT_FSIZE",
                        "RLIMIT_CORE", "environ.clear", "environ.update">>
                /\ child[c].rlimits["RLIMIT_CORE"] = 0)
    /\ [][\A c \in Calls :
            Started(c) =>
                /\ child'[c].rlimits = child[c].rlimits
                /\ child'[c].log = child[c].log]_vars

\* C8 witness: a program runs under the limits
C8_Witness ==
    \E c \in Calls : child[c].state = "running" /\ Len(child[c].log) = Len(LIMITS) + 2

\* C9: when the spawn fails with an OS error, execute returns empty stdout,
\* empty stderr and a message that starts with 'File system error:', which
\* is neither the timeout nor the exit-code message, and no child runs
C9_SpawnOSErrorReported ==
    \A c \in Calls :
        (pc[c] = "returned" /\ result[c].caught \in OSErrorClasses) =>
            /\ result[c].stdout = <<>>
            /\ result[c].stderr = <<>>
            /\ Head(result[c].errmsg) = "File system error: "
            /\ Head(result[c].errmsg) \notin
                  {"Execution terminated after ", "Process exited with code "}
            /\ ~Started(c)

\* C9 witness: the exec of the program failed after the hook had run
C9_Witness ==
    \E c \in Calls :
        /\ pc[c] = "returned"
        /\ result[c].caught = "FileNotFoundError"
        /\ child[c].state = "aborted"
        /\ Len(child[c].log) = Len(LIMITS) + 2

\* C10: tool_python raises no raw low-level exception: whatever it raises is
\* the tool layer's structured error
C10_NoRawExceptionEscapes ==
    \A c \in Calls : result[c].exc \in {"none", "McpError"}

\* C11: when the variable that holds the interpreter path (or the linter
\* path in lint mode) is missing from the host's environment, the call ends
\* with the tool layer's structured error and returns no result string
C11_MissingConfigIsStructuredError ==
    \A c \in Calls :
        command_var(sandbox[c]) \notin DOMAIN os_environ =>
            /\ pc[c] # "returned"
            /\ result[c].caught = "none"

\* C12: a call whose communicate() was reached reports the timeout message
\* exactly when the time limit expired, also for a killed child; a child that
\* ended on its own with a non-zero code N before the limit gives 'Process
\* exited with code N' with all of its stdout and stderr, never the timeout
\* message
C12_OneStatusThatNamesTheOutcome ==
    \A c \in Calls :
        (pc[c] = "returned" /\ result[c].caught = "none") =>
            /\ (result[c].errmsg =
                    <<"Execution terminated after ", ToString(args[c].time_limit), " seconds">>)
                  <=> (timer[c] = "expired")
            /\ (child[c].rc # 0 /\ ~child[c].killed) =>
                  /\ result[c].errmsg = <<"Process exited with code ", ToString(child[c].rc)>>
                  /\ result[c].stdout = chunks(1, child[c].out)
                  /\ result[c].stderr = chunks(1, child[c].err)

(* ---------------------- claims: the remote shell ---------------------- *)
\* a line that starts with the prompt marker '$ '
IsPromptLine(l) == Len(l) >= 2 /\ l[1] = "$" /\ l[2] = " "

\* the place of the first prompt line of seq, Len(seq) + 1 if it has none
FirstPrompt(seq) ==
    IF \E i \in 1..Len(seq) : IsPromptLine(seq[i])
    THEN CHOOSE i \in 1..Len(seq) :
            IsPromptLine(seq[i]) /\ \A j \in 1..(i - 1) : ~IsPromptLine(seq[j])
    ELSE Len(seq) + 1

\* the lines the connection delivered to the run_command in progress
RunLines == SubSeq(received, run.mark + 1, Len(received))

\* of them, the lines before the first prompt line: the command's output
OutputLines == SubSeq(RunLines, 1, FirstPrompt(RunLines) - 1)

\* and the lines after that prompt up to the next one: the response to
\* what was written after the command
ResponseLines ==
    LET rest == SubSeq(RunLines, FirstPrompt(RunLines) + 1, Len(RunLines))
    IN  SubSeq(rest, 1, FirstPrompt(rest) - 1)

\* the characters of the lines of seq, in order
RECURSIVE Concat(_)
Concat(seq) == IF seq = <<>> THEN <<>> ELSE Head(seq) \o Concat(Tail(seq))

\* the tool's run_command of the command has returned to the tool
CommandReturned == sh_pc = "returned" /\ run.cmd = "main"

\* what the run_command in progress wrote
RunWritten ==
    IF request.cwd # "~" /\ run.cmd = "main"
    THEN SubSeq(writer, 3, Len(writer))
    ELSE writer

\* C13: when the wait for the command's prompt expires, run_command returns
\* stderr 'Command timed out', exit code 1, and as stdout the lines that had
\* been read before the expiry
C13_TimeoutKeepsBufferedOutput ==
    (CommandReturned /\ run.expired = "primary") =>
        /\ cmd_result.stderr = "Command timed out"
        /\ cmd_result.exit_code = 1
        /\ cmd_result.stdout = Concat(RunLines)

\* C14: without a screen session the command is written followed by exactly
\* one newline, and when a prompt line arrived for it the returned stdout is
\* the lines received before the first prompt line, in order, and nothing
\* else
C14_StdoutIsLinesBeforeFirstPrompt ==
    (run.cmd = "main" /\ request.screen = NoScreen) =>
        /\ (Len(RunWritten) >= 2 /\ SubSeq(RunWritten, 1, 2) = <<"ls", "\n">>
              /\ (Len(RunWritten) >= 3 => RunWritten[3] # "\n"))
        /\ (sh_pc = "returned" /\ FirstPrompt(RunLines) <= Len(RunLines)) =>
              cmd_result.stdout = Concat(OutputLines)

\* a string of decimal digits
OnlyDecimalDigits(t) == t # <<>> /\ \A i \in 1..Len(t) : t[i] \in {"0", "1", "2"}

\* the read of the response to 'echo $?' ended at a prompt or at EOF
ResponseRead ==
    /\ revision = "sandbox.py"
    /\ CommandReturned
    /\ run.read = "exit_code"
    /\ \/ eof
       \/ \E i \in (FirstPrompt(RunLines) + 1)..Len(RunLines) : IsPromptLine(RunLines[i])

ContainsSeq(text, u) ==
    \E i \in 0..(Len(text) - Len(u)) : SubSeq(text, i + 1, i + Len(u)) = u

\* C16: when the stream delivered output lines and then a prompt line, and
\* nothing after that prompt, the string tool_sandbox returns says 'Exit
\* code: 0' and holds every one of the output lines
C16_SuccessWhenStreamEndsAtPrompt ==
    (/\ revision = "sandbox.py"
     /\ sh_pc = "returned"
     /\ FirstPrompt(RunLines) >= 2
     /\ FirstPrompt(RunLines) = Len(RunLines)
     /\ cmd_result.stderr # "Connection lost") =>
        /\ ContainsSeq(tool_result.formatted, <<"Exit code: ", "0">>)
        /\ \A i \in 1..(Len(RunLines) - 1) :
              ContainsSeq(tool_result.formatted, strip(RunLines[i]))

\* C17: with the location not configured the connect step raises the
\* structured error that says the variable is not set; no connection is
\* attempted or returned and nothing is written
C17_ConnectFailsFastWithoutLocation ==
    (location = "unset" /\ sh_pc # "idle") =>
        /\ sh_pc = "raised"
        /\ tool_result.exc = "McpError"
        /\ tool_result.message = "SANDBOX environment variable is not set"
        /\ connection = "none"
        /\ writer = <<>>

\* C18: once the connection is established no exception leaves run_command:
\* the tool call does not raise, and a write failure, read failure, decoding
\* error or timeout is a result with exit code 1 and its reason in stderr
C18_RunCommandNeverRaises ==
    /\ sh_pc = "raised" => connection \in {"none", "refused"}
    /\ (CommandReturned /\ run.expired # "none") =>
          (cmd_result.exit_code = 1 /\ cmd_result.stderr = "Command timed out")

\* the five writes of the screen sequence
ScreenSequence ==
    ScreenCreate \o ScreenStuff \o ScreenHardcopy \o ScreenDetach \o ScreenCat

\* C19: with a screen session the stream gets the create-or-reattach, the
\* injection, and after the settle delay the hardcopy, the detach and the cat,
\* each once and in this order; no line of the response is read before all
\* five are written
C19_ScreenSequenceInOrder ==
    (run.cmd = "main" /\ request.screen # NoScreen) =>
        /\ sh_pc = "settle" => RunWritten = ScreenCreate \o ScreenStuff
        /\ sh_pc \in {"read", "returned"} => RunWritten = ScreenSequence
        /\ Len(RunLines) > 0 => RunWritten = ScreenSequence
        /\ \E n \in 0..Len(ScreenSequence) : RunWritten = SubSeq(ScreenSequence, 1, n)

\* C19 witness: the response to a screen command was read and returned
C19_Witness ==
    /\ sh_pc = "returned"
    /\ run.cmd = "main"
    /\ request.screen = "S"
    /\ Len(RunLines) > 0
    /\ tool_result.exc = "none"

\* C20: with a screen session and a shell at the other end that answers each
\* command with its output and a prompt, a run_command that did not time out
\* returns as stdout the log file the final cat printed
C20_ScreenStdoutIsLogFile ==
    (/\ peer = "shell"
     /\ CommandReturned
     /\ request.screen # NoScreen
     /\ run.expired = "none") =>
        cmd_result.stdout = LineLog

\* C21: every command written to the stream has its newline written before
\* the first byte of the next command, without a screen session and in each
\* step of the screen sequence
C21_CommandsNewlineTerminated ==
    \A i \in 1..(Len(writer) - 1) : writer[i] # "\n" => writer[i + 1] = "\n"

\* what had been written on the connection when the run_command in progress
\* began
WrittenBefore == SubSeq(writer, 1, Len(writer) - Len(RunWritten))

\* C28: with a shell at the other end, the stdout a run_command returns is
\* made of lines the shell sent in response to the command of that
\* run_command, also when the run_command before it on the same connection
\* timed out: none of them is part of the response to an earlier command
C28_StdoutIsOwnResponse ==
    (peer = "shell" /\ CommandReturned) =>
        \E k \in 0..Len(RunLines) :
            /\ cmd_result.stdout = Concat(SubSeq(RunLines, 1, k))
            /\ k > 0 => run.mark >= Len(responses(WrittenBefore))

\* C29: when a tool call that opened a connection has returned or raised,
\* the connection is closed
C29_ConnectionClosedOnEveryPath ==
    sh_pc \in {"returned", "raised"} => connection # "open"

\* C30: when the prompt that ends the command's output was read, the result
\* run_command returns has that output as stdout, whatever became of the
\* exchange of 'echo $?' after it
C30_StdoutSurvivesExitCodeFailure ==
    (revision = "sandbox.py" /\ CommandReturned /\ run.read = "exit_code") =>
        cmd_result.stdout = output

(* ------------------- claims: lint, format, concurrency ---------------- *)
\* C24: a call with lint set runs without a time limit whatever time_limit
\* it was given: no timeout is armed, the lint tool is never killed and no
\* timeout message is returned; execute returns when the tool has exited and
\* its pipes are closed, with all it wrote and the exit message of any
\* run, and an exception is reported by the same except clauses
C24_LintHasNoTimeLimit ==
    \A c \in Calls :
        (args[c].lint /\ pc[c] \notin {"idle", "unused"}) =>
            /\ sandbox[c].time_limit = None
            /\ timer[c] = "off"
            /\ ~child[c].killed
            /\ pc[c] # "drain"
            /\ command_var(sandbox[c]) = "SANDBOX_RUFF"
            /\ pc[c] = "returned" =>
                  IF result[c].caught = "none"
                  THEN /\ communicated(child[c])
                       /\ result[c].stdout = chunks(1, child[c].out)
                       /\ result[c].stderr = chunks(1, child[c].err)
                       /\ result[c].errmsg = exit_errmsg(child[c].rc, <<>>)
                  ELSE /\ result[c].errmsg = except_errmsg(result[c].caught)
                       /\ child[c].state \in {"none", "aborted"}

\* C24 witness: a lint call given a time limit of one second or more has
\* returned what the tool wrote after the tool exited with a non-zero code
C24_Witness ==
    \E c \in Calls :
        /\ args[c].lint
        /\ args[c].time_limit >= 1
        /\ pc[c] = "returned"
        /\ result[c].caught = "none"
        /\ child[c].rc = 1
        /\ child[c].out = MaxChunks
        /\ result[c].stdout = chunks(1, MaxChunks)

\* the result of call c is one the call has when no other call runs: its
\* program's output after the program ended, or the report of a missing
\* path variable, of a limit the OS rejected, or of a program that could
\* not be executed after the hook had run in the staged directory
AloneResult(c) ==
    LET r == result[c]
        ch == child[c]
    IN  CASE r.caught = "none" ->
               /\ communicated(ch)
               /\ IsSuffixOfStream(r.stdout, ch.out)
               /\ IsSuffixOfStream(r.stderr, ch.err)
          [] r.caught = "KeyError" ->
               command_var(sandbox[c]) \notin DOMAIN os_environ /\ ch = NoChild
          [] r.caught = "SubprocessError" ->
               ch.state = "aborted" /\ Len(ch.log) < Len(LIMITS)
          [] r.caught = "FileNotFoundError" ->
               ch.state = "aborted" /\ Len(ch.log) = Len(LIMITS) + 2
          [] OTHER -> FALSE

\* two calls got the same input and their programs did the same
SameRun(c1, c2) ==
    /\ args[c1] = args[c2]
    /\ child[c1].out = child[c2].out
    /\ child[c1].err = child[c2].err
    /\ child[c1].rc = child[c2].rc
    /\ timer[c1] # "expired"
    /\ timer[c2] # "expired"

\* C25: whatever other calls do meanwhile, a call returns a result it can
\* have when it runs alone, and two calls with the same input whose programs
\* did the same return the same stdout
C25_CallsAreIndependent ==
    /\ \A c \in Calls : pc[c] = "returned" => AloneResult(c)
    /\ \A c1, c2 \in Calls :
          (/\ pc[c1] = "returned" /\ pc[c2] = "returned"
           /\ result[c1].caught = "none" /\ result[c2].caught = "none"
           /\ SameRun(c1, c2)) =>
              result[c1].stdout = result[c2].stdout

\* what format_output shows of a value: its text, decoded and stripped
Shown(v) == strip(IF v.type = "bytes" THEN decode_replace(v.chars) ELSE v.chars)

\* how often the token tok occurs in text
CountOf(text, tok) == Cardinality({i \in 1..Len(text) : text[i] = tok})

\* C22: the string format_output returns has one fenced section for each of
\* stdout, stderr and the error message that is not empty once stripped,
\* with that text between the fences: no section is missing when two of
\* them have the same content or when an error message is present
C22_OneSectionForEachNonEmpty ==
    (call.fn = "format_output" /\ outcome.state = "returned") =>
        LET present == {n \in {"stdout", "stderr", "errmsg"} : Shown(call[n]) # <<>>}
        IN  /\ CountOf(outcome.value, Fence) = 2 * Cardinality(present)
            /\ \A n \in present :
                  ContainsSeq(outcome.value,
                              <<Fence, "\n">> \o Shown(call[n]) \o <<"\n", Fence>>)

\* C23: when the exit code of the program or command is known, the string
\* handed to the tool layer holds it: every string tool_python can return
\* for a call whose child has exited holds the child's exit status, 0 and
\* the status of a killed child included, and the string a shell tool
\* returns holds the exit code of its result
C23_ExitCodeAlwaysSurfaced ==
    /\ \A c \in Calls :
          (pc[c] = "returned" /\ child[c].state = "exited") =>
              \A text \in tool_python_returns(c) :
                  CountOf(text, ToString(child[c].rc)) > 0
    /\ sh_pc = "returned" =>
          ContainsSeq(tool_result.formatted,
                      <<"Exit code: ", ToString(cmd_result.exit_code)>>)

\* a name that marks a hidden file or directory
HiddenName(n) == startswith(n, Dot) /\ n # Dot /\ n # DotDot

\* C26: sanitise_path raises for a path that begins with a slash, for a path
\* whose parent steps lead out of the workspace root, and for a path with a
\* hidden component; what it returns is a relative path without a hidden
\* component whose resolution lies inside the workspace root
C26_SanitisedPathStaysInside ==
    (call.fn = "sanitise_path" /\ outcome # NoOutcome) =>
        LET pieces == split(call.path, <<>>)
            given == Path(call.path).names
        IN  /\ startswith(call.path, <<"/">>) => outcome.state = "raised"
            /\ ~is_relative_to(resolve(WorkspaceDir, given, FALSE), WorkspaceDir) =>
                  outcome.state = "raised"
            /\ (\E i \in 1..Len(pieces) : HiddenName(pieces[i])) =>
                  outcome.state = "raised"
            /\ outcome.state = "returned" =>
                  /\ outcome.value.root = ""
                  /\ ~any_hidden(outcome.value.names)
                  /\ is_relative_to(
                         resolve(WorkspaceDir, outcome.value.names, call.link),
                         WorkspaceDir)

\* C27: read_file returns at most max_length bytes for a positive max_length
\* and the whole file for max_length 0, and truncated is true exactly when
\* the file holds more bytes than were returned
C27_TruncatedIffBytesLeft ==
    (call.fn = "read_file" /\ outcome.state = "returned") =>
        /\ call.max_length > 0 => Len(outcome.value.content) <= call.max_length
        /\ call.max_length = 0 => Len(outcome.value.content) = Len(call.file)
        /\ outcome.value.truncated <=> Len(call.file) > Len(outcome.value.content)

====
